---- MODULE Spec2Model ----
(***************************************************************************)
(* Model of mapArchiveCleaner (src/main.go): a sequential filepath.Walk    *)
(* over a directory tree that starts one goroutine per ".zip" path under a *)
(* sizedwaitgroup of runtime.NumCPU() slots; each goroutine rewrites its   *)
(* archive in memory (processZipFile), overwrites the file, and removes    *)
(* the file when processZipFile returns an error.                          *)
(*                                                                         *)
(* Strings the code inspects (entry names, file names) are sequences of    *)
(* one-character strings, so that filepath.Ext, filepath.Base and          *)
(* strings.Contains are computed, not assumed.                             *)
(***************************************************************************)
EXTENDS Naturals, Sequences, FiniteSets

VARIABLES
    tree,      \* the directory tree under *rootDir, listed in the order filepath.Walk visits it
    fs,        \* fs[n]: what is on disk at the path of node n
    orig,      \* fs as it was when the current process started (history)
    ph,        \* ./placeholder.png: [state, blob]
    mainpc,    \* where main() is: "start", "walk", "wait", "done"
    idx,       \* the node filepath.Walk hands to the callback next
    walkErr,   \* the error filepath.Walk returned (FALSE: nil)
    swg,       \* the SizedWaitGroup: [limit, current, wg]
    pc,        \* pc[n]: the goroutine of node n: "idle", "run", "failed", "exit", "done"
    err,       \* err[n]: what processZipFile returned for node n ("none": not yet returned)
    out,       \* the lines printed so far by this process
    runs,      \* how many times the program has been started
    rewrote    \* the nodes some earlier process rewrote successfully (history)

vars == <<tree, fs, orig, ph, mainpc, idx, walkErr, swg, pc, err, out, runs, rewrote>>

----------------------------------------------------------------------------
(* Bounds *)

\* runtime.NumCPU() on the modelled host
NumCPU == 2
\* the longest archive (in entries) of the rewrite specification
MaxEntries == 3
\* how many times the program is started, one process after the other
MaxRuns == 2

----------------------------------------------------------------------------
(* path/filepath and strings, on slash-separated names *)

RECURSIVE ExtFrom(_, _)
ExtFrom(path, i) ==
    IF i = 0 \/ path[i] = "/" THEN <<>>
    ELSE IF path[i] = "." THEN SubSeq(path, i, Len(path))
    ELSE ExtFrom(path, i - 1)

\* filepath.Ext: the suffix beginning at the final dot of the final element
Ext(path) == ExtFrom(path, Len(path))

RECURSIVE StripSlashes(_)
StripSlashes(path) ==
    IF Len(path) > 0 /\ path[Len(path)] = "/"
    THEN StripSlashes(SubSeq(path, 1, Len(path) - 1))
    ELSE path

RECURSIVE LastSlash(_, _)
LastSlash(path, i) ==
    IF i = 0 \/ path[i] = "/" THEN i ELSE LastSlash(path, i - 1)

\* filepath.Base: the last element of the path, trailing slashes removed
Base(path) ==
    IF path = <<>> THEN <<".">>
    ELSE LET p == StripSlashes(path)
             q == SubSeq(p, LastSlash(p, Len(p)) + 1, Len(p))
         IN  IF q = <<>> THEN <<"/">> ELSE q

\* strings.Contains
Contains(s, substr) ==
    \E i \in 1..(Len(s) + 1) :
        /\ i + Len(substr) - 1 <= Len(s)
        /\ SubSeq(s, i, i + Len(substr) - 1) = substr

ExtZip == <<".", "z", "i", "p">>
ExtPng == <<".", "p", "n", "g">>
ExtLua == <<".", "l", "u", "a">>
ExtPsd == <<".", "p", "s", "d">>
ExtXcf == <<".", "x", "c", "f">>
ExtBlend == <<".", "b", "l", "e", "n", "d">>
ExtJpg == <<".", "j", "p", "g">>
StrImgSource == <<"i", "m", "g", "-", "s", "o", "u", "r", "c", "e">>
BaseLicense == <<"L", "I", "C", "E", "N", "S", "E">>
BaseReadme == <<"R", "E", "A", "D", "M", "E", ".", "m", "d">>
BaseScript == <<"s", "c", "r", "i", "p", "t", ".", "d", "a", "t">>
BaseBanner == <<"b", "a", "n", "n", "e", "r", ".", "p", "n", "g">>
BasePreviewPng == <<"p", "r", "e", "v", "i", "e", "w", ".", "p", "n", "g">>
BasePreviewJpg == <<"p", "r", "e", "v", "i", "e", "w", ".", "j", "p", "g">>

shouldSkipFile(fileName) ==
    LET ext == Ext(fileName)
        base == Base(fileName)
    IN  IF Contains(fileName, StrImgSource) THEN TRUE
        ELSE \/ ext = ExtLua
             \/ ext = ExtPsd
             \/ ext = ExtXcf
             \/ ext = ExtBlend
             \/ ext = ExtJpg
             \/ base = BaseLicense
             \/ base = BaseReadme
             \/ base = BaseScript
             \/ base = BaseBanner
             \/ base = BasePreviewPng
             \/ base = BasePreviewJpg

----------------------------------------------------------------------------
(* Archives.  An entry is [name, modified, data, bad]; bad: the stored      *)
(* entry cannot be opened (zip.File.Open fails).  A zip.Writer is           *)
(* [entries, broken]; broken: CreateHeader fails.                           *)

NewEntry(file, content) ==
    [name |-> file.name, modified |-> file.modified, data |-> content, bad |-> FALSE]

\* What a mutated addPlaceholderPNGToZip would do: keep the picture's own bytes.
addPlaceholderKeepsBytes(file, zipWriter, placeholderPNG) ==
    IF zipWriter.broken
    THEN [err |-> "png-create", w |-> zipWriter]
    ELSE [err |-> "nil",
          w |-> [zipWriter EXCEPT !.entries = Append(@, NewEntry(file, file.data))]]

addPlaceholderPNGToZip(file, zipWriter, placeholderPNG) ==
    IF zipWriter.broken
    THEN [err |-> "png-create", w |-> zipWriter]
    ELSE [err |-> "nil",
          w |-> [zipWriter EXCEPT !.entries = Append(@, NewEntry(file, placeholderPNG))]]

\* What a mutated copyFileToZip would do: leave header.Modified unset.
copyFileDropsModified(file, zipWriter) ==
    IF file.bad THEN [err |-> "copy-open", w |-> zipWriter]
    ELSE IF zipWriter.broken THEN [err |-> "copy-create", w |-> zipWriter]
    ELSE [err |-> "nil",
          w |-> [zipWriter EXCEPT !.entries =
                    Append(@, [NewEntry(file, file.data) EXCEPT !.modified = 0])]]

copyFileToZip(file, zipWriter) ==
    IF file.bad THEN [err |-> "copy-open", w |-> zipWriter]
    ELSE IF zipWriter.broken THEN [err |-> "copy-create", w |-> zipWriter]
    ELSE [err |-> "nil",
          w |-> [zipWriter EXCEPT !.entries = Append(@, NewEntry(file, file.data))]]

\* The loop over zipReader.File; acc is [err, w, printed].
RECURSIVE zipLoop(_, _, _, _)
zipLoop(files, i, placeholderPNG, acc) ==
    IF i > Len(files) THEN acc
    ELSE LET file == files[i] IN
         IF shouldSkipFile(file.name)
         THEN zipLoop(files, i + 1, placeholderPNG,
                      [acc EXCEPT !.printed = @ \cup {file.name}])
         ELSE LET r == IF Ext(file.name) = ExtPng
                       THEN addPlaceholderPNGToZip(file, acc.w, placeholderPNG)
                       ELSE copyFileToZip(file, acc.w)
              IN  IF r.err # "nil"
                  THEN [acc EXCEPT !.err = r.err]
                  ELSE zipLoop(files, i + 1, placeholderPNG, [acc EXCEPT !.w = r.w])

\* The I/O faults the host can inject into one call of processZipFile.
Faults == {"none", "open", "stat", "create", "close", "write"}

\* processZipFile up to and including os.WriteFile: [err, buf, printed].
\* zipFile is what is on disk at zipPath, placeholder what is at
\* placeholderPNGPath, fault the I/O fault of this call.
processZipFile(zipFile, placeholder, fault) ==
    LET fail(e) == [err |-> e, buf |-> <<>>, printed |-> {}] IN
    IF fault = "open" \/ ~zipFile.exists THEN fail("open")
    ELSE IF fault = "stat" THEN fail("stat")
    ELSE IF ~zipFile.valid THEN fail("read")
    ELSE IF placeholder.state # "ok" THEN fail("placeholder")
    ELSE LET r == zipLoop(zipFile.entries, 1, placeholder.blob,
                          [err |-> "nil",
                           w |-> [entries |-> <<>>, broken |-> (fault = "create")],
                           printed |-> {}])
         IN  IF r.err # "nil"
             THEN [err |-> r.err, buf |-> <<>>, printed |-> r.printed]
             ELSE IF fault = "close"
             THEN [err |-> "close", buf |-> <<>>, printed |-> r.printed]
             ELSE IF fault = "write"
             THEN [err |-> "write", buf |-> r.w.entries, printed |-> r.printed]
             ELSE [err |-> "nil", buf |-> r.w.entries, printed |-> r.printed]

----------------------------------------------------------------------------
(* The data the runs are explored on *)

NameTxt == <<"a", ".", "t", "x", "t">>
NamePng == <<"b", ".", "p", "n", "g">>
NameBanner == <<"b", "a", "n", "n", "e", "r", ".", "p", "n", "g">>
NameImgSource == <<"i", "m", "g", "-", "s", "o", "u", "r", "c", "e", "/", "c", ".", "p", "n", "g">>
NameLua == <<"d", ".", "l", "u", "a">>
NameUpperPng == <<"e", ".", "P", "N", "G">>
NameReadme == <<"m", "/", "R", "E", "A", "D", "M", "E", ".", "m", "d">>

FileRoot == <<".">>
FileA == <<"a", ".", "z", "i", "p">>
FileD == <<"d">>
FileB == <<"b", ".", "z", "i", "p">>
FileC == <<"c", ".", "Z", "I", "P">>
FileE == <<"e", ".", "z", "i", "p">>
FileF == <<"f", ".", "z", "i", "p">>
FileG == <<"g", ".", "z", "i", "p">>

Entry(n, m, d, b) == [name |-> n, modified |-> m, data |-> d, bad |-> b]

EntTxt == Entry(NameTxt, 1, "d1", FALSE)
EntPng == Entry(NamePng, 2, "d2", FALSE)
EntBanner == Entry(NameBanner, 1, "d1", FALSE)
EntBadTxt == Entry(NameTxt, 2, "d2", TRUE)

\* The entries the archives of the rewrite specification are built from.
EntryPool ==
    { EntTxt, EntPng, EntBanner, EntBadTxt,
      Entry(NameImgSource, 2, "d2", TRUE),
      Entry(NameLua, 1, "d1", FALSE),
      Entry(NameUpperPng, 2, "d2", FALSE),
      Entry(NameReadme, 1, "d2", FALSE) }

RECURSIVE SeqsUpTo(_, _)
SeqsUpTo(S, n) ==
    IF n = 0 THEN {<<>>}
    ELSE LET shorter == SeqsUpTo(S, n - 1)
         IN  shorter \cup {Append(s, e) : s \in shorter, e \in S}

Archive(entries) == [exists |-> TRUE, valid |-> TRUE, entries |-> entries]
\* a file that is no zip archive (zip.NewReader fails), or one os.WriteFile left half written
Junk == [exists |-> TRUE, valid |-> FALSE, entries |-> <<>>]
\* nothing at the path
Absent == [exists |-> FALSE, valid |-> FALSE, entries |-> <<>>]

\* The archives a file of the traversal specification may hold.
SmallArchives == { Archive(<<EntTxt, EntBanner, EntPng>>), Archive(<<EntBadTxt>>), Junk }

Node(n, k, p) == [name |-> n, kind |-> k, parent |-> p, err |-> FALSE]

\*   .            1
\*   ./a.zip      2  regular file
\*   ./d          3  directory
\*   ./d/b.zip    4  regular file
\*   ./d/c.ZIP    5  regular file
\*   ./e.zip      6  directory
\*   ./f.zip      7  symbolic link to an archive outside the tree
\*   ./g.zip      8  regular file
WalkTree ==
    << Node(FileRoot, "dir", 0), Node(FileA, "file", 1), Node(FileD, "dir", 1),
       Node(FileB, "file", 3), Node(FileC, "file", 3), Node(FileE, "dir", 1),
       Node(FileF, "symlink", 1), Node(FileG, "file", 1) >>

\*   .            1
\*   ./a.zip      2  regular file
RewriteTree == << Node(FileRoot, "dir", 0), Node(FileA, "file", 1) >>

\* the tree t with an lstat/readdir error at node e (0: none)
WithError(t, e) == [i \in 1..Len(t) |-> [t[i] EXCEPT !.err = (i = e)]]

Placeholders == [state : {"missing", "unreadable", "ok"}, blob : {"PH"}]

----------------------------------------------------------------------------
(* The program *)

Nodes == 1..Len(tree)

Line(m, n, e) == [msg |-> m, path |-> n, name |-> e]

Start(t, disk, p, r, rw) ==
    /\ tree = t
    /\ fs = disk
    /\ orig = disk
    /\ ph = p
    /\ mainpc = "start"
    /\ idx = 1
    /\ walkErr = FALSE
    /\ swg = [limit |-> 0, current |-> 0, wg |-> 0]
    /\ pc = [n \in 1..Len(t) |-> "idle"]
    /\ err = [n \in 1..Len(t) |-> "none"]
    /\ out = {}
    /\ runs = r
    /\ rewrote = rw

\* The traversal specification: the eight-node tree, small archives.
Init ==
    \E e \in 0..Len(WalkTree), p \in Placeholders,
       a \in SmallArchives, b \in SmallArchives, g \in SmallArchives :
        Start(WithError(WalkTree, e),
              [n \in 1..Len(WalkTree) |->
                  CASE n = 2 -> a
                    [] n = 4 -> b
                    [] n = 5 -> Archive(<<EntTxt>>)
                    [] n = 7 -> Archive(<<EntPng>>)
                    [] n = 8 -> g
                    [] OTHER -> Junk],
              p, 1, {})

\* The rewrite specification: one archive, any entries of the pool.
InitRW ==
    \E e \in {0, 2}, p \in Placeholders, a \in SeqsUpTo(EntryPool, MaxEntries) :
        Start(WithError(RewriteTree, e),
              [n \in 1..Len(RewriteTree) |-> IF n = 2 THEN Archive(a) ELSE Junk],
              p, 1, {})

\* runtime.NumCPU()
numWorkers == NumCPU

\* os.IsNotExist(err) of os.Stat(placeholderPNGPath)
PlaceholderNeverMissing(placeholder) == FALSE

PlaceholderMissing(placeholder) == placeholder.state = "missing"

\* main() up to filepath.Walk
CheckPlaceholder ==
    /\ mainpc = "start"
    /\ IF PlaceholderMissing(ph)
       THEN /\ out' = out \cup {Line("Placeholder PNG file not found", 0, <<>>)}
            /\ mainpc' = "done"
            /\ swg' = swg
       ELSE /\ out' = out
            /\ mainpc' = "walk"
            /\ swg' = [limit |-> numWorkers, current |-> 0, wg |-> 0]
    /\ UNCHANGED <<tree, fs, orig, ph, idx, walkErr, pc, err, runs, rewrote>>

\* !info.IsDir() && filepath.Ext(info.Name()) == ".zip"
IsZipTarget(info) == info.kind # "dir" /\ Ext(info.name) = ExtZip

SwgAddNeverBlocks(s) == TRUE

\* swg.Add() returns only when a slot is free
SwgAddReturns(s) == s.current < s.limit

SwgWaitNeverBlocks(s) == TRUE

\* swg.Wait() returns only when every Add has had its Done
SwgWaitReturns(s) == s.wg = 0

\* The walk goes on after the callback saw an error.
WalkGoesOn(i) == [mainpc |-> "walk", idx |-> i + 1]

\* The callback returns err: filepath.Walk stops and returns it.
AfterWalkError(i) == [mainpc |-> "wait", idx |-> i]

\* the callback, called with err != nil; then main's report of Walk's error
WalkError ==
    /\ mainpc = "walk"
    /\ idx <= Len(tree)
    /\ tree[idx].err
    /\ walkErr' = TRUE
    /\ out' = out \cup {Line("Error walking the directory", idx, <<>>)}
    /\ mainpc' = AfterWalkError(idx).mainpc
    /\ idx' = AfterWalkError(idx).idx
    /\ UNCHANGED <<tree, fs, orig, ph, swg, pc, err, runs, rewrote>>

\* the callback on a ".zip" path: swg.Add(), go func(path)
WalkDispatch ==
    /\ mainpc = "walk"
    /\ idx <= Len(tree)
    /\ ~tree[idx].err
    /\ IsZipTarget(tree[idx])
    /\ SwgAddReturns(swg)
    /\ swg' = [swg EXCEPT !.current = @ + 1, !.wg = @ + 1]
    /\ pc' = [pc EXCEPT ![idx] = "run"]
    /\ idx' = idx + 1
    /\ UNCHANGED <<tree, fs, orig, ph, mainpc, walkErr, err, out, runs, rewrote>>

\* the callback on any other path
WalkSkip ==
    /\ mainpc = "walk"
    /\ idx <= Len(tree)
    /\ ~tree[idx].err
    /\ ~IsZipTarget(tree[idx])
    /\ idx' = idx + 1
    /\ UNCHANGED <<tree, fs, orig, ph, mainpc, walkErr, swg, pc, err, out, runs, rewrote>>

\* filepath.Walk returns nil
WalkEnd ==
    /\ mainpc = "walk"
    /\ idx > Len(tree)
    /\ mainpc' = "wait"
    /\ UNCHANGED <<tree, fs, orig, ph, idx, walkErr, swg, pc, err, out, runs, rewrote>>

\* swg.Wait(); fmt.Println("Processing complete.")
WaitDone ==
    /\ mainpc = "wait"
    /\ SwgWaitReturns(swg)
    /\ out' = out \cup {Line("Processing complete.", 0, <<>>)}
    /\ mainpc' = "done"
    /\ UNCHANGED <<tree, fs, orig, ph, idx, walkErr, swg, pc, err, runs, rewrote>>

\* os.Remove forgotten
RemoveNothing(disk, n) == disk

\* os.Remove(zipPath)
Remove(disk, n) == [disk EXCEPT ![n] = Absent]

\* Only a failed overwrite counts as a failure.
RemovesOnlyAfterWrite(e) == e = "write"

\* if err := processZipFile(...); err != nil
Failed(e) == e # "nil"

\* The faults explored at node n: all of them at the first archive of the
\* walk, the failed overwrite alone at the others (which still fail on
\* what they hold and on an unreadable placeholder).
HostFaults(n) == IF n = 2 THEN Faults ELSE {"none", "write"}

\* the goroutine's call of processZipFile(zipPath, placeholderPNGPath)
JobProcess(n) ==
    /\ pc[n] = "run"
    /\ \E fault \in HostFaults(n), torn \in BOOLEAN :
        LET r == processZipFile(fs[n], ph, fault) IN
        /\ err' = [err EXCEPT ![n] = r.err]
        /\ fs' = IF r.err = "nil" THEN [fs EXCEPT ![n] = Archive(r.buf)]
                 ELSE IF r.err = "write" /\ torn THEN [fs EXCEPT ![n] = Junk]
                 ELSE fs
        /\ out' = out \cup {Line("Excluding file", n, e) : e \in r.printed}
        /\ pc' = [pc EXCEPT ![n] = IF Failed(r.err) THEN "failed" ELSE "exit"]
    /\ UNCHANGED <<tree, orig, ph, mainpc, idx, walkErr, swg, runs, rewrote>>

\* the goroutine's error branch: the report, then os.Remove(zipPath)
JobRemove(n) ==
    /\ pc[n] = "failed"
    /\ out' = out \cup {Line("Error processing zip file", n, <<>>)}
    /\ fs' = Remove(fs, n)
    /\ pc' = [pc EXCEPT ![n] = "exit"]
    /\ UNCHANGED <<tree, orig, ph, mainpc, idx, walkErr, swg, err, runs, rewrote>>

\* defer swg.Done()
JobDone(n) ==
    /\ pc[n] = "exit"
    /\ swg' = [swg EXCEPT !.current = @ - 1, !.wg = @ - 1]
    /\ pc' = [pc EXCEPT ![n] = "done"]
    /\ UNCHANGED <<tree, fs, orig, ph, mainpc, idx, walkErr, err, out, runs, rewrote>>

\* The process has returned from main(); the program is started again on the same tree.
Rerun ==
    /\ mainpc = "done"
    /\ runs < MaxRuns
    /\ runs' = runs + 1
    /\ rewrote' = rewrote \cup {n \in Nodes : err[n] = "nil"}
    /\ orig' = fs
    /\ mainpc' = "start"
    /\ idx' = 1
    /\ walkErr' = FALSE
    /\ swg' = [limit |-> 0, current |-> 0, wg |-> 0]
    /\ pc' = [n \in Nodes |-> "idle"]
    /\ err' = [n \in Nodes |-> "none"]
    /\ out' = {}
    /\ UNCHANGED <<tree, fs, ph>>

Next ==
    \/ CheckPlaceholder
    \/ WalkError
    \/ WalkDispatch
    \/ WalkSkip
    \/ WalkEnd
    \/ WaitDone
    \/ \E n \in Nodes : JobProcess(n)
    \/ \E n \in Nodes : JobRemove(n)
    \/ \E n \in Nodes : JobDone(n)

NextRW == Next \/ Rerun

Spec == Init /\ [][Next]_vars

SpecRW == InitRW /\ [][NextRW]_vars

----------------------------------------------------------------------------
(* What the properties are stated with *)

NotFoundLine == Line("Placeholder PNG file not found", 0, <<>>)
CompleteLine == Line("Processing complete.", 0, <<>>)
WalkErrorLine(n) == Line("Error walking the directory", n, <<>>)
JobErrorLine(n) == Line("Error processing zip file", n, <<>>)

\* the jobs dispatched and not yet finished
InFlight == {n \in Nodes : pc[n] \in {"run", "failed", "exit"}}

\* the jobs whose processZipFile has returned
Returned == {n \in Nodes : pc[n] \in {"failed", "exit", "done"}}

\* the jobs past their error branch
Ended == {n \in Nodes : pc[n] \in {"exit", "done"}}

\* what a reader of an archive sees of its entries
View(entries) ==
    [i \in 1..Len(entries) |->
        [name |-> entries[i].name, modified |-> entries[i].modified,
         data |-> entries[i].data]]

Kept(e) == ~shouldSkipFile(e.name)

\* the entries a rewrite is to produce, stated on the whole sequence
Expected(entries, blob) ==
    LET kept == SelectSeq(entries, Kept) IN
    [i \in 1..Len(kept) |->
        [name |-> kept[i].name, modified |-> kept[i].modified,
         data |-> IF Ext(kept[i].name) = ExtPng THEN blob ELSE kept[i].data]]

\* an archive with no excluded entry and no ".png" entry
Clean(entries) ==
    \A i \in 1..Len(entries) :
        ~shouldSkipFile(entries[i].name) /\ Ext(entries[i].name) # ExtPng

\* the errors of processZipFile that only an I/O fault produces
FaultErrors == {"open", "stat", "png-create", "copy-create", "close", "write"}

\* the errors of processZipFile returned before os.WriteFile is reached
BeforeCommit ==
    {"open", "stat", "read", "placeholder", "png-create", "copy-open",
     "copy-create", "close"}

\* the jobs that went past os.ReadFile(placeholderPNGPath)
PlaceholderReaders ==
    {n \in Nodes : err[n] \in {"nil", "placeholder", "png-create", "copy-open",
                                "copy-create", "close", "write"}}

RECURSIVE IsUnder(_, _)
\* node n lies in the directory a
IsUnder(n, a) ==
    IF n = 0 THEN FALSE
    ELSE tree[n].parent = a \/ IsUnder(tree[n].parent, a)

\* some step of the program can be taken (ENABLED Next, cheapest guards first)
CanStep ==
    \/ ENABLED (CheckPlaceholder \/ WalkError \/ WalkDispatch \/ WalkSkip \/ WalkEnd \/ WaitDone)
    \/ ENABLED (\E n \in Nodes : JobRemove(n) \/ JobDone(n))
    \/ ENABLED (\E n \in Nodes : JobProcess(n))

----------------------------------------------------------------------------
(* Properties *)

\* C1: the rewrite jobs dispatched and not yet finished never number more
\* than N, the number of processing units, however many archives there are.
InFlightBounded == Cardinality(InFlight) <= numWorkers

\* C1 witness: N jobs are in flight and the walk stands at a further archive.
InFlightFull ==
    /\ Cardinality(InFlight) = numWorkers
    /\ mainpc = "walk"
    /\ idx <= Len(tree)
    /\ ~tree[idx].err
    /\ IsZipTarget(tree[idx])

\* C2: "Processing complete." is printed only when every dispatched job has
\* finished, so that no archive can be overwritten or removed after it.
CompletionAfterJobs ==
    CompleteLine \in out =>
        /\ mainpc = "done"
        /\ \A n \in Nodes : pc[n] \in {"idle", "done"}

\* C2 witness: completion is reported after a job that succeeded and one that failed.
CompletionReported ==
    /\ CompleteLine \in out
    /\ \E n, m \in Nodes : pc[n] = "done" /\ pc[m] = "done" /\ err[n] = "nil" /\ err[m] = "read"

\* C3: a failing job removes its own archive and logs the error, and nothing
\* else: only failed jobs' archives are removed, every job's outcome is the
\* one its own archive (and its own I/O fault) gives, the walk dispatches
\* every archive, and the run goes on to report completion.
FailureIsolated ==
    /\ \A n \in Ended :
          err[n] # "nil" => fs[n] = Absent /\ JobErrorLine(n) \in out
    /\ \A n \in Nodes :
          ~fs[n].exists => n \in Returned /\ err[n] # "nil"
    /\ \A n \in Returned :
          /\ err[n] \in {processZipFile(orig[n], ph, f).err : f \in HostFaults(n)}
          /\ err[n] \notin FaultErrors => err[n] = processZipFile(orig[n], ph, "none").err
          /\ err[n] = "nil" => fs[n] = Archive(processZipFile(orig[n], ph, "none").buf)
    /\ (mainpc \in {"wait", "done"} /\ ~walkErr /\ ph.state # "missing") =>
          \A n \in Nodes : IsZipTarget(tree[n]) => pc[n] # "idle"
    /\ (mainpc = "done" /\ ph.state # "missing") =>
          /\ CompleteLine \in out
          /\ \A n \in Nodes : pc[n] \in {"idle", "done"}
    /\ mainpc # "done" => CanStep

\* C3 witness: of three archives the second is no archive; the run is over,
\* the first and third are rewritten and the second is gone.
SecondOfThreeFailed ==
    /\ mainpc = "done"
    /\ CompleteLine \in out
    /\ err[2] = "nil" /\ fs[2].exists
    /\ err[4] = "read" /\ ~fs[4].exists
    /\ err[8] = "nil" /\ fs[8].exists

\* C4, as claimed: after a job has ended its archive is rewritten, or (failure
\* before the overwrite) as it was before, or (failed overwrite) removed.
UntouchedBeforeCommit ==
    \A n \in Nodes : pc[n] = "done" =>
        \/ err[n] = "nil" /\ fs[n].valid
             /\ View(fs[n].entries) = Expected(orig[n].entries, ph.blob)
        \/ err[n] \in BeforeCommit /\ fs[n] = orig[n]
        \/ err[n] = "write" /\ fs[n] = Absent

\* C4, amended: after a job has ended its archive is rewritten or, whatever
\* the stage of the failure, removed; a failure before the overwrite leaves
\* the archive as it was only until the job removes it.
RewrittenOrRemoved ==
    /\ \A n \in Ended :
          \/ err[n] = "nil" /\ fs[n].valid
               /\ View(fs[n].entries) = Expected(orig[n].entries, ph.blob)
          \/ err[n] \in BeforeCommit \cup {"write"} /\ fs[n] = Absent
    /\ \A n \in Nodes :
          (pc[n] = "failed" /\ err[n] \in BeforeCommit) => fs[n] = orig[n]

\* C4 witness: a job that failed before the overwrite has ended and its
\* archive, which was there, is gone.
RemovedBeforeCommit ==
    \E n \in Nodes :
        pc[n] = "done" /\ err[n] \in BeforeCommit /\ orig[n].exists /\ ~fs[n].exists

\* C5, as claimed: the placeholder is read once, before any dispatch, and no
\* job fails (and no archive is removed) for want of a readable placeholder.
PlaceholderReadOnce ==
    /\ Cardinality(PlaceholderReaders) <= 1
    /\ \A n \in Nodes : err[n] # "placeholder"

\* C6: with no placeholder file the program prints its message and stops:
\* nothing is dispatched and nothing on disk changes.
MissingPlaceholderStops ==
    ph.state = "missing" =>
        /\ mainpc \in {"start", "done"}
        /\ \A n \in Nodes : pc[n] = "idle"
        /\ fs = orig
        /\ mainpc = "done" => out = {NotFoundLine}

\* C6 witness: the run without a placeholder is over.
StoppedWithoutPlaceholder == ph.state = "missing" /\ mainpc = "done"

\* C7: a successful rewrite leaves the input's entries, in order, less the
\* excluded ones, ".png" entries holding the placeholder, the others their
\* own bytes, names and timestamps kept.
RewriteResult ==
    \A n \in Nodes : err[n] = "nil" =>
        /\ fs[n].valid
        /\ View(fs[n].entries) = Expected(orig[n].entries, ph.blob)

\* C7 witness: an archive holding a kept file, an excluded ".png" and a
\* ".png" has been rewritten.
MixedArchiveRewritten ==
    /\ err[2] = "nil"
    /\ orig[2].entries = <<EntTxt, EntBanner, EntPng>>

\* C8: rewriting an archive of kept non-".png" entries changes no name,
\* timestamp or byte, and rewriting again an archive already rewritten
\* changes nothing.
RewriteIdempotent ==
    \A n \in Nodes : err[n] = "nil" =>
        /\ Clean(orig[n].entries) => View(fs[n].entries) = View(orig[n].entries)
        /\ n \in rewrote => View(fs[n].entries) = View(orig[n].entries)

\* C8 witness: an archive with a ".png" entry and another entry has been
\* rewritten by a second process.
RewrittenTwice ==
    /\ runs > 1
    /\ 2 \in rewrote
    /\ err[2] = "nil"
    /\ Len(fs[2].entries) > 1
    /\ \E i \in 1..Len(fs[2].entries) : Ext(fs[2].entries[i].name) = ExtPng

\* C9, as claimed: the paths dispatched are the regular files with the
\* extension ".zip", all of them when the walk reports no error, and no
\* other path is touched.
OnlyRegularZipDispatched ==
    /\ \A n \in Nodes :
          pc[n] # "idle" => tree[n].kind = "file" /\ Ext(tree[n].name) = ExtZip
    /\ \A n \in Nodes :
          ~(tree[n].kind = "file" /\ Ext(tree[n].name) = ExtZip) => fs[n] = orig[n]
    /\ (mainpc \in {"wait", "done"} /\ ~walkErr /\ ph.state # "missing") =>
          \A n \in Nodes :
              (tree[n].kind = "file" /\ Ext(tree[n].name) = ExtZip) => pc[n] # "idle"

\* C10, as claimed: after a walk error the archives of the other branches,
\* not yet visited, are dispatched all the same.
OtherBranchesDispatched ==
    (walkErr /\ mainpc = "done") =>
        \A n \in Nodes :
            (n > idx /\ ~IsUnder(n, idx) /\ IsZipTarget(tree[n])) => pc[n] = "done"

\* C10, amended: a walk error is reported and ends the walk: no path from
\* the failing one on is dispatched; the jobs dispatched before it run to
\* their end and completion is reported after them.
WalkErrorEndsWalk ==
    walkErr =>
        /\ WalkErrorLine(idx) \in out
        /\ mainpc \in {"wait", "done"}
        /\ \A n \in Nodes : n >= idx => pc[n] = "idle"
        /\ \A n \in Nodes : (n < idx /\ IsZipTarget(tree[n])) => pc[n] # "idle"
        /\ CompleteLine \in out => \A n \in Nodes : pc[n] \in {"idle", "done"}
        /\ mainpc = "done" => CompleteLine \in out
        /\ mainpc # "done" => CanStep

\* C10 witness: the walk failed at the directory d; a.zip, before it, was
\* processed, and g.zip, in another branch, never dispatched.
WalkStoppedAtD ==
    /\ walkErr
    /\ mainpc = "done"
    /\ idx = 3
    /\ pc[2] = "done"
    /\ pc[8] = "idle"

====
